---- MODULE Spec2Model ----
(***************************************************************************)
(* Transport-neutral ACLs for rsync (lib/stdacls.h): the canonical 32-bit  *)
(* ACE layout, and the table-driven translation engine that maps between   *)
(* canonical and native bit assignments through RSYNC_ACEMAP_T tables.     *)
(*                                                                         *)
(* A uint32 (RSYNC_ACE_BITS_T) is represented by the set of positions of   *)
(* its set bits, a subset of 0..31, so that all 32 bits are representable  *)
(* (TLC's integers are signed 32-bit).  The header's constants are kept as *)
(* the integers the preprocessor computes and converted with Bits().       *)
(***************************************************************************)
EXTENDS Integers, Sequences, FiniteSets, TLC

VARIABLES pairs, table, build, input, op, ret, pc, acc

vars == <<pairs, table, build, input, op, ret, pc, acc>>

(* ------------------------------------------------------------------ *)
(* uint32 arithmetic                                                   *)
(* ------------------------------------------------------------------ *)

\* x << n
Shl(x, n) == x * 2^n

\* the width of RSYNC_ACE_BITS_T (uint32)
WordBits == 0..31

\* the bit positions set in the non-negative integer n (n < 2^31)
Bits(n) == {i \in 0..30 : (n \div 2^i) % 2 = 1}

\* ~w on a uint32
Compl(w) == WordBits \ w

(* ------------------------------------------------------------------ *)
(* lib/stdacls.h: brands, ACL types, and the canonical ACE layout      *)
(* ------------------------------------------------------------------ *)


_RSYNC_ACL_BRAND_UNKNOWN == 0
_RSYNC_ACL_BRAND_POSIX == 1
_RSYNC_ACL_BRAND_NFS4 == 2

RSYNC_ACL_BRAND_UNKNOWN == _RSYNC_ACL_BRAND_UNKNOWN
RSYNC_ACL_BRAND_POSIX == _RSYNC_ACL_BRAND_POSIX
RSYNC_ACL_BRAND_NFS4 == _RSYNC_ACL_BRAND_NFS4

_RSYNC_ACL_TYPE_UNKNOWN == 0
_RSYNC_ACL_TYPE_ACCESS == 1
_RSYNC_ACL_TYPE_DEFAULT == 2
_RSYNC_ACL_TYPE_NFS4 == 3

RSYNC_ACL_TYPE_UNKNOWN == _RSYNC_ACL_TYPE_UNKNOWN
RSYNC_ACL_TYPE_ACCESS == _RSYNC_ACL_TYPE_ACCESS
RSYNC_ACL_TYPE_DEFAULT == _RSYNC_ACL_TYPE_DEFAULT
RSYNC_ACL_TYPE_NFS4 == _RSYNC_ACL_TYPE_NFS4

_RSYNC_ACE_PERM_X == Shl(1, 0)
_RSYNC_ACE_PERM_W == Shl(1, 1)
_RSYNC_ACE_PERM_R == Shl(1, 2)
\* a mask one bit too wide
PERM_POSIX_BITS_TooWide == Shl(15, 0)
RSYNC_ACE_PERM_POSIX_BITS == Shl(7, 0)

_RSYNC_ACE_PERM_AD == Shl(1, 3)
_RSYNC_ACE_PERM_REA == Shl(1, 4)
_RSYNC_ACE_PERM_WEA == Shl(1, 5)
_RSYNC_ACE_PERM_DC == Shl(1, 6)
_RSYNC_ACE_PERM_RA == Shl(1, 7)
_RSYNC_ACE_PERM_WA == Shl(1, 8)
_RSYNC_ACE_PERM_D == Shl(1, 9)
_RSYNC_ACE_PERM_RC == Shl(1, 10)
_RSYNC_ACE_PERM_WDAC == Shl(1, 11)
_RSYNC_ACE_PERM_WO == Shl(1, 12)
_RSYNC_ACE_PERM_S == Shl(1, 13)
RSYNC_ACE_PERM_NFS4_BITS == Shl(1, 14) - 1

_RSYNC_ACE_TAG_UNDEFINED == Shl(0, 14)
_RSYNC_ACE_TAG_USER_OBJ == Shl(1, 14)
_RSYNC_ACE_TAG_USER == Shl(2, 14)
_RSYNC_ACE_TAG_GROUP_OBJ == Shl(3, 14)
_RSYNC_ACE_TAG_GROUP == Shl(4, 14)
_RSYNC_ACE_TAG_OTHER == Shl(5, 14)
\* the enumerant shifted to the wrong offset
TAG_MASK_WrongShift == Shl(6, 13)
_RSYNC_ACE_TAG_MASK == Shl(6, 14)
_RSYNC_ACE_TAG_EVERYONE == Shl(7, 14)
RSYNC_ACE_TAG_BITS == Shl(7, 14)

_RSYNC_ACE_TYPE_ALLOW == Shl(0, 17)
_RSYNC_ACE_TYPE_DENY == Shl(1, 17)
_RSYNC_ACE_TYPE_AUDIT == Shl(2, 17)
_RSYNC_ACE_TYPE_ALARM == Shl(3, 17)
\* the mask shifted to the wrong offset
TYPE_BITS_WrongShift == Shl(3, 16)
RSYNC_ACE_TYPE_BITS == Shl(3, 17)

_RSYNC_ACE_FLAG_OI == Shl(1, 19)
_RSYNC_ACE_FLAG_CI == Shl(1, 20)
_RSYNC_ACE_FLAG_NI == Shl(1, 21)
_RSYNC_ACE_FLAG_IO == Shl(1, 22)
_RSYNC_ACE_FLAG_I == Shl(1, 23)
_RSYNC_ACE_FLAG_SA == Shl(1, 24)
_RSYNC_ACE_FLAG_FA == Shl(1, 25)
\* a mask one bit too narrow
FLAG_BITS_TooNarrow == Shl(63, 19)
RSYNC_ACE_FLAG_BITS == Shl(127, 19)

\* a mask one bit too wide
VALID_BITS_TooWide == Shl(1, 27) - 1
RSYNC_ACE_VALID_BITS == Shl(1, 26) - 1

RSYNC_ACE_PERM_X == _RSYNC_ACE_PERM_X
RSYNC_ACE_PERM_W == _RSYNC_ACE_PERM_W
RSYNC_ACE_PERM_R == _RSYNC_ACE_PERM_R
RSYNC_ACE_PERM_AD == _RSYNC_ACE_PERM_AD
RSYNC_ACE_PERM_REA == _RSYNC_ACE_PERM_REA
RSYNC_ACE_PERM_WEA == _RSYNC_ACE_PERM_WEA
RSYNC_ACE_PERM_DC == _RSYNC_ACE_PERM_DC
RSYNC_ACE_PERM_RA == _RSYNC_ACE_PERM_RA
RSYNC_ACE_PERM_WA == _RSYNC_ACE_PERM_WA
RSYNC_ACE_PERM_D == _RSYNC_ACE_PERM_D
RSYNC_ACE_PERM_RC == _RSYNC_ACE_PERM_RC
RSYNC_ACE_PERM_WDAC == _RSYNC_ACE_PERM_WDAC
RSYNC_ACE_PERM_WO == _RSYNC_ACE_PERM_WO
RSYNC_ACE_PERM_S == _RSYNC_ACE_PERM_S

RSYNC_ACE_TAG_UNDEFINED == _RSYNC_ACE_TAG_UNDEFINED
RSYNC_ACE_TAG_USER_OBJ == _RSYNC_ACE_TAG_USER_OBJ
RSYNC_ACE_TAG_USER == _RSYNC_ACE_TAG_USER
RSYNC_ACE_TAG_GROUP_OBJ == _RSYNC_ACE_TAG_GROUP_OBJ
RSYNC_ACE_TAG_GROUP == _RSYNC_ACE_TAG_GROUP
RSYNC_ACE_TAG_OTHER == _RSYNC_ACE_TAG_OTHER
RSYNC_ACE_TAG_MASK == _RSYNC_ACE_TAG_MASK
RSYNC_ACE_TAG_EVERYONE == _RSYNC_ACE_TAG_EVERYONE

RSYNC_ACE_TYPE_ALLOW == _RSYNC_ACE_TYPE_ALLOW
RSYNC_ACE_TYPE_DENY == _RSYNC_ACE_TYPE_DENY
RSYNC_ACE_TYPE_AUDIT == _RSYNC_ACE_TYPE_AUDIT
RSYNC_ACE_TYPE_ALARM == _RSYNC_ACE_TYPE_ALARM

RSYNC_ACE_FLAG_OI == _RSYNC_ACE_FLAG_OI
RSYNC_ACE_FLAG_CI == _RSYNC_ACE_FLAG_CI
RSYNC_ACE_FLAG_NI == _RSYNC_ACE_FLAG_NI
RSYNC_ACE_FLAG_IO == _RSYNC_ACE_FLAG_IO
RSYNC_ACE_FLAG_I == _RSYNC_ACE_FLAG_I
RSYNC_ACE_FLAG_SA == _RSYNC_ACE_FLAG_SA
RSYNC_ACE_FLAG_FA == _RSYNC_ACE_FLAG_FA


\* typedef uint32 RSYNC_ACE_BITS_T: a word is a set of bit positions
RSYNC_ACE_BITS_T == SUBSET WordBits

\* the enumerants of RSYNC_ACL_BRAND_T a platform reader can supply
RSYNC_ACL_BRAND_T == {RSYNC_ACL_BRAND_POSIX, RSYNC_ACL_BRAND_NFS4}

\* the enumerants of RSYNC_ACE_TAG_T, as words
RSYNC_ACE_TAG_T ==
    {Bits(t) : t \in {RSYNC_ACE_TAG_UNDEFINED, RSYNC_ACE_TAG_USER_OBJ,
                      RSYNC_ACE_TAG_USER, RSYNC_ACE_TAG_GROUP_OBJ,
                      RSYNC_ACE_TAG_GROUP, RSYNC_ACE_TAG_OTHER,
                      RSYNC_ACE_TAG_MASK, RSYNC_ACE_TAG_EVERYONE}}

\* the enumerants of RSYNC_ACE_TYPE_T, as words
RSYNC_ACE_TYPE_T ==
    {Bits(t) : t \in {RSYNC_ACE_TYPE_ALLOW, RSYNC_ACE_TYPE_DENY,
                      RSYNC_ACE_TYPE_AUDIT, RSYNC_ACE_TYPE_ALARM}}

\* one table entry: { uint32_t rsync; uint32_t impl; }
RSYNC_ACEMAP_T(r, i) == [rsync |-> r, impl |-> i]

\* the count one short: the last entry is never walked
ENTRIES_OneShort(m) == Len(m) - 1

\* the division inverted, sizeof(m[0])/sizeof(m): no entry is walked
ENTRIES_Inverted(m) == 0

\* sizeof(m)/sizeof(m[0]): the number of entries of table m
RSYNC_ACEMAP_ENTRIES(m) == Len(m)

(* ------------------------------------------------------------------ *)
(* Canonical ACE model: field accessors and validation                 *)
(* ------------------------------------------------------------------ *)

PermField(value) == value \cap Bits(RSYNC_ACE_PERM_NFS4_BITS)
TagField(value)  == value \cap Bits(RSYNC_ACE_TAG_BITS)
TypeField(value) == value \cap Bits(RSYNC_ACE_TYPE_BITS)
FlagField(value) == value \cap Bits(RSYNC_ACE_FLAG_BITS)

\* validate(value): reserved bits must be zero, tag and type must decode to
\* a defined enumerant; no brand applicability is checked here.
validate(value) ==
    IF value \cap Compl(Bits(RSYNC_ACE_VALID_BITS)) # {}
    THEN "InvalidEncoding"
    ELSE IF TagField(value) \notin RSYNC_ACE_TAG_T
    THEN "InvalidEncoding"
    ELSE IF TypeField(value) \notin RSYNC_ACE_TYPE_T
    THEN "InvalidEncoding"
    ELSE "Ok"

\* the permission mask a brand allows
BrandPermMask(brand) ==
    IF brand = RSYNC_ACL_BRAND_POSIX
    THEN Bits(RSYNC_ACE_PERM_POSIX_BITS)
    ELSE Bits(RSYNC_ACE_PERM_NFS4_BITS)

\* validate_for_brand(ace, brand): permissions inside the brand's mask; under
\* POSIX no Everyone tag, no type but Allow, no flags; under NFS4 no
\* POSIX-only tag (Other, Mask).
validate_for_brand(value, brand) ==
    IF PermField(value) \ BrandPermMask(brand) # {}
    THEN "BrandMismatch"
    ELSE IF brand = RSYNC_ACL_BRAND_POSIX
            /\ (\/ TagField(value) = Bits(RSYNC_ACE_TAG_EVERYONE)
                \/ TypeField(value) # Bits(RSYNC_ACE_TYPE_ALLOW)
                \/ FlagField(value) # {})
    THEN "BrandMismatch"
    ELSE IF brand = RSYNC_ACL_BRAND_NFS4
            /\ TagField(value) \in {Bits(RSYNC_ACE_TAG_OTHER), Bits(RSYNC_ACE_TAG_MASK)}
    THEN "BrandMismatch"
    ELSE "Ok"

(* ------------------------------------------------------------------ *)
(* Translation table engine                                            *)
(* ------------------------------------------------------------------ *)

\* build_table(pair list): no canonical bit and no native bit may repeat
build_table(list) ==
    IF \E i, j \in 1..RSYNC_ACEMAP_ENTRIES(list) :
          /\ i < j
          /\ (list[i].rsync = list[j].rsync \/ list[i].impl = list[j].impl)
    THEN "DuplicateMapping"
    ELSE "Ok"

\* the walk over the table's entries, native to canonical: an entry whose
\* native bit is set in the input contributes its canonical bit and clears
\* the bit from the residue
RECURSIVE EncodeLoop(_, _, _, _, _)
EncodeLoop(m, native, i, canonical, unmapped) ==
    IF i > RSYNC_ACEMAP_ENTRIES(m)
    THEN [bits |-> canonical, unmapped |-> unmapped]
    ELSE IF m[i].impl \cap native # {}
    THEN EncodeLoop(m, native, i + 1, canonical \cup m[i].rsync, unmapped \ m[i].impl)
    ELSE EncodeLoop(m, native, i + 1, canonical, unmapped)

encode_native_to_canonical(m, native_bits) ==
    EncodeLoop(m, native_bits, 1, {}, native_bits)

\* the mirror walk, canonical to native
RECURSIVE DecodeLoop(_, _, _, _, _)
DecodeLoop(m, canonical, i, native, unmapped) ==
    IF i > RSYNC_ACEMAP_ENTRIES(m)
    THEN [bits |-> native, unmapped |-> unmapped]
    ELSE IF m[i].rsync \cap canonical # {}
    THEN DecodeLoop(m, canonical, i + 1, native \cup m[i].impl, unmapped \ m[i].rsync)
    ELSE DecodeLoop(m, canonical, i + 1, native, unmapped)

decode_canonical_to_native(m, canonical_bits) ==
    DecodeLoop(m, canonical_bits, 1, {}, canonical_bits)

\* translate_ace(table, ace_native_fields): the three bit groups through the
\* table, then the residue check, then validate and validate_for_brand
translate_ace(m, n) ==
    LET p == encode_native_to_canonical(m, n.perms)
        t == encode_native_to_canonical(m, n.tagtype)
        f == encode_native_to_canonical(m, n.flags)
        residue == p.unmapped \cup t.unmapped \cup f.unmapped
        value == p.bits \cup t.bits \cup f.bits
    IN  IF residue # {}
        THEN [status |-> "Unmapped", bits |-> residue]
        ELSE IF validate(value) # "Ok"
        THEN [status |-> "InvalidEncoding", bits |-> {}]
        ELSE IF validate_for_brand(value, n.brand) # "Ok"
        THEN [status |-> "BrandMismatch", bits |-> {}]
        ELSE [status |-> "Ok",
              ace |-> [brand |-> n.brand, value |-> value, principal |-> n.principal]]

\* the ACE fields translate_acl hands to translate_ace for one native entry
AceFields(acl, e) ==
    [brand |-> acl.brand, perms |-> e.perms, tagtype |-> e.tagtype,
     flags |-> e.flags, principal |-> e.principal]

\* a best-effort loop: a failing entry ends the loop with what was
\* translated so far
translate_acl_step_partial(m, acl, done) ==
    IF Len(done) = Len(acl.aces)
          \/ translate_ace(m, AceFields(acl, acl.aces[Len(done) + 1])).status # "Ok"
    THEN [pc |-> "idle", acc |-> <<>>,
          ret |-> [status |-> "Ok",
                   acl |-> [brand |-> acl.brand, type |-> acl.type, aces |-> done]]]
    ELSE [pc |-> "translate_acl",
          acc |-> Append(done, translate_ace(m, AceFields(acl, acl.aces[Len(done) + 1])).ace),
          ret |-> [status |-> "None"]]

\* one iteration of translate_acl over entry number Len(done) (0-based):
\* the next loop state [pc, acc, ret]
translate_acl_step(m, acl, done) ==
    IF Len(done) = Len(acl.aces)
    THEN [pc |-> "idle", acc |-> <<>>,
          ret |-> [status |-> "Ok",
                   acl |-> [brand |-> acl.brand, type |-> acl.type, aces |-> done]]]
    ELSE LET r == translate_ace(m, AceFields(acl, acl.aces[Len(done) + 1]))
         IN  IF r.status = "Ok"
             THEN [pc |-> "translate_acl", acc |-> Append(done, r.ace),
                   ret |-> [status |-> "None"]]
             ELSE [pc |-> "idle", acc |-> <<>>,
                   ret |-> [status |-> "Error", index |-> Len(done), error |-> r]]

(* ------------------------------------------------------------------ *)
(* Bounds and input domains                                            *)
(* ------------------------------------------------------------------ *)

\* longest pair list enumerated exhaustively over PairPool
MaxPairs == 2

\* longest native ACL handed to translate_acl
MaxAclLen == 2

\* all sequences over S of length at most n
SeqsUpTo(S, n) == UNION {[1..k -> S] : k \in 0..n}

\* single-bit pairs enumerated exhaustively: repeats of a canonical bit, of
\* a native bit, crossed assignments, and a pair onto reserved bit 26
PairPool ==
    {RSYNC_ACEMAP_T({c}, {n}) : c \in {0, 10, 26}, n \in {0, 10, 31}}

\* POSIX.1e permissions only: (bit0,bit0), (bit1,bit1), (bit2,bit2)
PosixTable == [i \in 1..3 |-> RSYNC_ACEMAP_T({i - 1}, {i - 1})]

\* every valid canonical bit onto the same native bit
Nfs4Table == [i \in 1..26 |-> RSYNC_ACEMAP_T({i - 1}, {i - 1})]

\* as Nfs4Table, without an entry for bit 10 (Read ACL)
Nfs4NoRcTable ==
    [i \in 1..25 |-> RSYNC_ACEMAP_T({IF i <= 10 THEN i - 1 ELSE i},
                                    {IF i <= 10 THEN i - 1 ELSE i})]

\* a platform whose native assignment differs: canonical bit i is native 31-i
MirrorTable == [i \in 1..26 |-> RSYNC_ACEMAP_T({i - 1}, {32 - i})]

\* the pair lists handed to build_table
PairLists ==
    SeqsUpTo(PairPool, MaxPairs)
        \cup {PosixTable, Nfs4Table, Nfs4NoRcTable, MirrorTable}

\* the words handed to the per-group translations
EngineWords ==
    (SUBSET {0, 1, 10, 26})
        \cup {{0, 1, 2}, 0..13, 0..25, {14, 15, 16, 17, 20}, {31}, {21, 30, 31},
              {5, 18}, WordBits}

\* native ACEs: raw permission, tag+type and flag groups, and a principal
NativePerms   == {{}, {0, 1, 2}, {10}, {0, 10}, 0..13, {29, 31}}
NativeTagType == {{}, {14}, {14, 15, 16, 17}, {15, 16}, {14, 16}}
NativeFlags   == {{}, {20}, {25}}

NativeAces ==
    {[brand |-> b, perms |-> p, tagtype |-> t, flags |-> f, principal |-> 1000] :
        b \in RSYNC_ACL_BRAND_T, p \in NativePerms, t \in NativeTagType,
        f \in NativeFlags}

\* the entries native ACLs are made of (no brand: the ACL carries it)
AclEntries ==
    { [perms |-> {0},     tagtype |-> {},   flags |-> {},   principal |-> 0],
      [perms |-> {0, 10}, tagtype |-> {},   flags |-> {},   principal |-> 1001],
      [perms |-> {10},    tagtype |-> {17}, flags |-> {20}, principal |-> 1002] }

NativeAcls ==
    {[brand |-> b, type |-> t, aces |-> s] :
        b \in RSYNC_ACL_BRAND_T, t \in {RSYNC_ACL_TYPE_ACCESS, RSYNC_ACL_TYPE_NFS4},
        s \in SeqsUpTo(AclEntries, MaxAclLen)}

\* canonical values handed to validate and validate_for_brand: per field,
\* nothing, each single bit, and everything
FieldSamples(lo, hi) == {{}} \cup {{i} : i \in lo..hi} \cup {lo..hi}

CanonValues ==
    {p \cup t \cup y \cup f \cup r :
        p \in FieldSamples(0, 13) \cup {{0, 1, 2}},
        t \in SUBSET (14..16),
        y \in SUBSET (17..18),
        f \in FieldSamples(19, 25),
        r \in FieldSamples(26, 31)}

(* ------------------------------------------------------------------ *)
(* State machine                                                       *)
(* ------------------------------------------------------------------ *)

None == [status |-> "None"]

NoLeg == [bits |-> {}, unmapped |-> {}]

\* what a process of the engine is given: a platform's pair list, and one
\* value to translate
EngineInputs ==
    {[kind |-> k, word |-> w] : k \in {"native", "canonical"}, w \in EngineWords}
        \cup {[kind |-> "ace", ace |-> n] : n \in NativeAces}
        \cup {[kind |-> "acl", acl |-> a] : a \in NativeAcls}

\* process start: no table built yet, nothing translated
Init ==
    /\ pairs \in PairLists
    /\ input \in EngineInputs
    /\ table = <<>>
    /\ build = "None"
    /\ op = "init"
    /\ ret = None
    /\ pc = "start"
    /\ acc = <<>>

\* build_table at startup: an accepted pair list becomes the process's
\* table, a rejected one halts startup
BuildTable ==
    /\ pc = "start"
    /\ build' = build_table(pairs)
    /\ table' = IF build_table(pairs) = "Ok" THEN pairs ELSE table
    /\ pc' = IF build_table(pairs) = "Ok" THEN "idle" ELSE "halt"
    /\ op' = "build_table"
    /\ UNCHANGED <<pairs, input, ret, acc>>

Encode ==
    /\ pc = "idle" /\ op = "build_table"
    /\ input.kind = "native"
    /\ op' = "encode"
    /\ ret' = [status |-> "Ok", first |-> encode_native_to_canonical(table, input.word),
               second |-> NoLeg]
    /\ UNCHANGED <<pairs, table, build, input, pc, acc>>

Decode ==
    /\ pc = "idle" /\ op = "build_table"
    /\ input.kind = "canonical"
    /\ op' = "decode"
    /\ ret' = [status |-> "Ok", first |-> decode_canonical_to_native(table, input.word),
               second |-> NoLeg]
    /\ UNCHANGED <<pairs, table, build, input, pc, acc>>

\* the receiving side: the canonical bits an encode produced are decoded
\* through the same table
DecodeEncoded ==
    /\ pc = "idle" /\ op = "encode"
    /\ op' = "encode_decode"
    /\ ret' = [ret EXCEPT !.second = decode_canonical_to_native(table, ret.first.bits)]
    /\ UNCHANGED <<pairs, table, build, input, pc, acc>>

\* the way back: the native bits a decode produced are encoded through the
\* same table
EncodeDecoded ==
    /\ pc = "idle" /\ op = "decode"
    /\ op' = "decode_encode"
    /\ ret' = [ret EXCEPT !.second = encode_native_to_canonical(table, ret.first.bits)]
    /\ UNCHANGED <<pairs, table, build, input, pc, acc>>

TranslateAce ==
    /\ pc = "idle" /\ op = "build_table"
    /\ input.kind = "ace"
    /\ op' = "translate_ace"
    /\ ret' = translate_ace(table, input.ace)
    /\ UNCHANGED <<pairs, table, build, input, pc, acc>>

\* translate_acl is entered: nothing translated yet
TranslateAclCall ==
    /\ pc = "idle" /\ op = "build_table"
    /\ input.kind = "acl"
    /\ op' = "translate_acl"
    /\ pc' = "translate_acl"
    /\ acc' = <<>>
    /\ UNCHANGED <<pairs, table, build, input, ret>>

\* one iteration of translate_acl's loop, or its return
TranslateAclStep ==
    /\ pc = "translate_acl"
    /\ LET s == translate_acl_step(table, input.acl, acc)
       IN  /\ pc' = s.pc
           /\ acc' = s.acc
           /\ ret' = s.ret
    /\ UNCHANGED <<pairs, table, build, input, op>>

Next ==
    \/ BuildTable
    \/ Encode
    \/ Decode
    \/ DecodeEncoded
    \/ EncodeDecoded
    \/ TranslateAce
    \/ TranslateAclCall
    \/ TranslateAclStep

Spec == Init /\ [][Next]_vars

\* the canonical ACE model on its own: a received value and the brand it is
\* checked for
InitCanon ==
    /\ input \in {[kind |-> "value", value |-> v, brand |-> b] :
                     v \in CanonValues, b \in RSYNC_ACL_BRAND_T}
    /\ pairs = <<>>
    /\ table = <<>>
    /\ build = "None"
    /\ op = "init"
    /\ ret = None
    /\ pc = "idle"
    /\ acc = <<>>

Validate ==
    /\ op = "init"
    /\ input.kind = "value"
    /\ op' = "validate"
    /\ ret' = [status |-> validate(input.value)]
    /\ UNCHANGED <<pairs, table, build, input, pc, acc>>

ValidateForBrand ==
    /\ op = "init"
    /\ input.kind = "value"
    /\ op' = "validate_for_brand"
    /\ ret' = [status |-> validate_for_brand(input.value, input.brand)]
    /\ UNCHANGED <<pairs, table, build, input, pc, acc>>

NextCanon ==
    \/ Validate
    \/ ValidateForBrand

SpecCanon == InitCanon /\ [][NextCanon]_vars

(* ------------------------------------------------------------------ *)
(* Properties                                                          *)
(* ------------------------------------------------------------------ *)

\* the number a field of `width` bits at offset `off` holds in value v
RECURSIVE FieldValue(_, _, _)
FieldValue(v, off, width) ==
    IF width = 0 THEN 0
    ELSE FieldValue(v, off, width - 1)
           + (IF (off + width - 1) \in v THEN 2^(width - 1) ELSE 0)

\* tag and type by their place in the vocabulary: Undefined, UserObj, User,
\* GroupObj, Group, Other, Mask, Everyone; Allow, Deny, Audit, Alarm
TagNumber(v)  == FieldValue(v, 14, 3)
TypeNumber(v) == FieldValue(v, 17, 2)
TagOther    == 5
TagMask     == 6
TagEveryone == 7
TypeAllow   == 0

\* the bits that have an entry in table t, on either side
NativeBitsOf(t)    == UNION {t[i].impl : i \in 1..Len(t)}
CanonicalBitsOf(t) == UNION {t[i].rsync : i \in 1..Len(t)}

\* t maps no canonical bit and no native bit twice
PartialBijection(t) ==
    \A i, j \in 1..Len(t) :
        i # j => (t[i].rsync # t[j].rsync /\ t[i].impl # t[j].impl)

\* the layout of the header's constants: the four field masks are bits
\* 0-13, 14-16, 17-18 and 19-25, pairwise disjoint, their union the valid
\* mask, bits 0-25; the POSIX permission mask, bits 0-2, lies inside the NFS4
\* permission mask; every permission, tag, type and flag constant lies
\* inside its own field's mask
LayoutOfConstants ==
    LET P == Bits(RSYNC_ACE_PERM_NFS4_BITS)
        T == Bits(RSYNC_ACE_TAG_BITS)
        Y == Bits(RSYNC_ACE_TYPE_BITS)
        F == Bits(RSYNC_ACE_FLAG_BITS)
        perms == {RSYNC_ACE_PERM_X, RSYNC_ACE_PERM_W, RSYNC_ACE_PERM_R,
                  RSYNC_ACE_PERM_AD, RSYNC_ACE_PERM_REA, RSYNC_ACE_PERM_WEA,
                  RSYNC_ACE_PERM_DC, RSYNC_ACE_PERM_RA, RSYNC_ACE_PERM_WA,
                  RSYNC_ACE_PERM_D, RSYNC_ACE_PERM_RC, RSYNC_ACE_PERM_WDAC,
                  RSYNC_ACE_PERM_WO, RSYNC_ACE_PERM_S}
        flags == {RSYNC_ACE_FLAG_OI, RSYNC_ACE_FLAG_CI, RSYNC_ACE_FLAG_NI,
                  RSYNC_ACE_FLAG_IO, RSYNC_ACE_FLAG_I, RSYNC_ACE_FLAG_SA,
                  RSYNC_ACE_FLAG_FA}
    IN  /\ P = 0..13 /\ T = 14..16 /\ Y = 17..18 /\ F = 19..25
        /\ P \cap T = {} /\ P \cap Y = {} /\ P \cap F = {}
        /\ T \cap Y = {} /\ T \cap F = {} /\ Y \cap F = {}
        /\ P \cup T \cup Y \cup F = Bits(RSYNC_ACE_VALID_BITS)
        /\ Bits(RSYNC_ACE_VALID_BITS) = 0..25
        /\ Bits(RSYNC_ACE_PERM_POSIX_BITS) = 0..2
        /\ Bits(RSYNC_ACE_PERM_POSIX_BITS) \subseteq P
        /\ Cardinality(perms) = 14
        /\ \A c \in perms : Bits(c) \subseteq P /\ Cardinality(Bits(c)) = 1
        /\ Cardinality(RSYNC_ACE_TAG_T) = 8
        /\ \A t \in RSYNC_ACE_TAG_T : t \subseteq T
        /\ Cardinality(RSYNC_ACE_TYPE_T) = 4
        /\ \A y \in RSYNC_ACE_TYPE_T : y \subseteq Y
        /\ Cardinality(flags) = 7
        /\ \A c \in flags : Bits(c) \subseteq F /\ Cardinality(Bits(c)) = 1

\* C9: the constants are laid out as above (permissions bits 0-13, tag bits
\* 14-16, type bits 17-18, flags bits 19-25, valid mask their disjoint
\* union, POSIX permissions inside NFS4 permissions, every constant inside
\* its field), so the four fields of any value handed to validate partition
\* its bits 0-25 and leave bits 26-31 out.
LayoutInvariant ==
    /\ LayoutOfConstants
    /\ op = "validate" =>
          LET v == input.value
          IN  /\ PermField(v) \cup TagField(v) \cup TypeField(v) \cup FlagField(v)
                    = v \ (26..31)
              /\ PermField(v) = v \cap (0..13)
              /\ TagField(v) = v \cap (14..16)
              /\ TypeField(v) = v \cap (17..18)
              /\ FlagField(v) = v \cap (19..25)

LayoutWitness ==
    /\ op = "validate"
    /\ input.value = {13, 14, 15, 16, 17, 18, 25, 26}
    /\ FlagField(input.value) = {25}
    /\ TagField(input.value) = {14, 15, 16}

\* C5: validate rejects exactly the values that set one of bits 26-31 or
\* whose tag or type field holds a number outside the vocabulary (0..7,
\* 0..3); permissions and flags never make it reject.
ValidateRejectsReserved ==
    op = "validate" =>
        LET v == input.value
        IN  /\ ret.status \in {"Ok", "InvalidEncoding"}
            /\ ret.status = "InvalidEncoding"
                 <=> \/ v \cap (26..31) # {}
                     \/ TagNumber(v) \notin 0..7
                     \/ TypeNumber(v) \notin 0..3

ValidateWitness ==
    /\ op = "validate"
    /\ input.value = {0, 1, 2, 14, 26}
    /\ ret.status = "InvalidEncoding"

\* C6: under brand POSIX a permission bit above bit 2, tag Everyone, a type
\* other than Allow, or any flag is a BrandMismatch; under brand NFS4 no
\* permission bit, type or flag is, and tag Everyone, type Deny, flag
\* ContainerInherit is accepted (and rejected under POSIX).
BrandPosixRejects ==
    op = "validate_for_brand" =>
        LET v == input.value
            scenario == {14, 15, 16, 17, 20}
        IN  /\ ret.status \in {"Ok", "BrandMismatch"}
            /\ (input.brand = RSYNC_ACL_BRAND_POSIX
                  /\ (\/ v \cap (3..13) # {}
                      \/ TagNumber(v) = TagEveryone
                      \/ TypeNumber(v) # TypeAllow
                      \/ v \cap (19..25) # {}))
                 => ret.status = "BrandMismatch"
            /\ (input.brand = RSYNC_ACL_BRAND_NFS4
                  /\ TagNumber(v) \notin {TagOther, TagMask})
                 => ret.status = "Ok"
            /\ (input.brand = RSYNC_ACL_BRAND_POSIX
                  /\ v \subseteq 0..2)
                 => ret.status = "Ok"
            /\ v = scenario =>
                 ret.status = IF input.brand = RSYNC_ACL_BRAND_NFS4
                              THEN "Ok" ELSE "BrandMismatch"

BrandWitness ==
    /\ op = "validate_for_brand"
    /\ input.brand = RSYNC_ACL_BRAND_NFS4
    /\ input.value = {14, 15, 16, 17, 20}
    /\ ret.status = "Ok"

\* C7: under brand NFS4 the tags Mask and Other are a BrandMismatch, under
\* brand POSIX tag Everyone and every type but Allow are; an accepted value
\* carries no tag or type reserved for the other brand.
BrandTagsExclusive ==
    op = "validate_for_brand" =>
        LET v == input.value
        IN  /\ (input.brand = RSYNC_ACL_BRAND_NFS4
                  /\ TagNumber(v) \in {TagOther, TagMask})
                 => ret.status = "BrandMismatch"
            /\ (input.brand = RSYNC_ACL_BRAND_POSIX
                  /\ (TagNumber(v) = TagEveryone \/ TypeNumber(v) # TypeAllow))
                 => ret.status = "BrandMismatch"
            /\ ret.status = "Ok" =>
                 IF input.brand = RSYNC_ACL_BRAND_POSIX
                 THEN v \cap (14..16) # {14, 15, 16} /\ v \cap (17..18) = {}
                 ELSE v \cap (14..16) \notin {{14, 16}, {15, 16}}

BrandTagsWitness ==
    /\ op = "validate_for_brand"
    /\ input.brand = RSYNC_ACL_BRAND_NFS4
    /\ input.value \cap (14..16) = {15, 16}
    /\ input.value \cap (0..13) = {0}
    /\ ret.status = "BrandMismatch"

\* C4: build_table answers DuplicateMapping exactly for the pair lists in
\* which a canonical bit or a native bit occurs in two entries; an accepted
\* list becomes the table unchanged, a rejected one never does, so the
\* process's table is always a partial bijection.
BuildRejectsDuplicates ==
    /\ PartialBijection(table)
    /\ op # "init" =>
          /\ build \in {"Ok", "DuplicateMapping"}
          /\ build = "DuplicateMapping"
               <=> \E i, j \in 1..Len(pairs) :
                      /\ i # j
                      /\ (pairs[i].rsync = pairs[j].rsync \/ pairs[i].impl = pairs[j].impl)
          /\ build = "Ok" => table = pairs
          /\ build = "DuplicateMapping" => table = <<>> /\ pc = "halt"

BuildWitness ==
    /\ build = "DuplicateMapping"
    /\ Len(pairs) = 2
    /\ pairs[1].impl # pairs[2].impl
    /\ pairs[2].rsync = pairs[1].rsync

\* C8: encode_native_to_canonical never fails; its unmapped result is
\* exactly the input bits that are the native bit of no entry, its canonical
\* result exactly the union of the canonical bits of the entries whose
\* native bit is set in the input, so every input bit is accounted for in
\* one of the two; decode_canonical_to_native likewise, the sides exchanged.
EncodePartitions ==
    /\ op \in {"encode", "encode_decode"} =>
          LET n == input.word
              r == ret.first
          IN  /\ ret.status = "Ok"
              /\ r.unmapped = n \ NativeBitsOf(table)
              /\ r.bits = UNION {table[i].rsync :
                                    i \in {k \in 1..Len(table) : table[k].impl \subseteq n}}
              /\ \A b \in n :
                    \/ b \in r.unmapped
                    \/ \E i \in 1..Len(table) :
                          table[i].impl = {b} /\ table[i].rsync \subseteq r.bits
    /\ op \in {"decode", "decode_encode"} =>
          LET c == input.word
              r == ret.first
          IN  /\ ret.status = "Ok"
              /\ r.unmapped = c \ CanonicalBitsOf(table)
              /\ r.bits = UNION {table[i].impl :
                                    i \in {k \in 1..Len(table) : table[k].rsync \subseteq c}}
              /\ \A b \in c :
                    \/ b \in r.unmapped
                    \/ \E i \in 1..Len(table) :
                          table[i].rsync = {b} /\ table[i].impl \subseteq r.bits

EncodeWitness ==
    /\ op = "encode"
    /\ table = MirrorTable
    /\ input.word = {21, 30, 31}
    /\ ret.first.bits = {0, 1, 10}
    /\ ret.first.unmapped = {}

\* C1 as stated: through any accepted table, every native pattern survives
\* encode then decode, and every canonical pattern under a brand's valid
\* mask (bits 0-2, bits 0-25) survives decode then encode, with no unmapped
\* residue on either leg.
RoundTripEveryPattern ==
    /\ op = "encode_decode" =>
          /\ ret.second.bits = input.word
          /\ ret.first.unmapped = {} /\ ret.second.unmapped = {}
    /\ (op = "decode_encode" /\ input.word \subseteq 0..25) =>
          /\ ret.second.bits = input.word
          /\ ret.first.unmapped = {} /\ ret.second.unmapped = {}

\* C1, amended: through an accepted table, a pattern all of whose bits have
\* an entry on the side it enters survives the round trip with no residue
\* on either leg; in general the first leg's residue is exactly the bits
\* without an entry, the second leg has none, and the round trip returns
\* the pattern without the first leg's residue.
RoundTripCovered ==
    /\ op = "encode_decode" =>
          /\ ret.first.unmapped = input.word \ NativeBitsOf(table)
          /\ ret.second.unmapped = {}
          /\ ret.second.bits = input.word \ ret.first.unmapped
          /\ input.word \subseteq NativeBitsOf(table) =>
                ret.first.unmapped = {} /\ ret.second.bits = input.word
    /\ op = "decode_encode" =>
          /\ ret.first.unmapped = input.word \ CanonicalBitsOf(table)
          /\ ret.second.unmapped = {}
          /\ ret.second.bits = input.word \ ret.first.unmapped
          /\ input.word \subseteq CanonicalBitsOf(table) =>
                ret.first.unmapped = {} /\ ret.second.bits = input.word

RoundTripWitness ==
    /\ op = "encode_decode"
    /\ table = PosixTable
    /\ input.word = {0, 1, 2}
    /\ ret.first = [bits |-> {0, 1, 2}, unmapped |-> {}]
    /\ ret.second = [bits |-> {0, 1, 2}, unmapped |-> {}]

\* the bits of native ACE n that are the native bit of no entry of table t
ResidueOf(t, n) == (n.perms \cup n.tagtype \cup n.flags) \ NativeBitsOf(t)

\* C3: when a bit of any of the three groups has no entry in the table,
\* translate_ace returns Unmapped with exactly those bits, and no ACE; an
\* NFS4 ACE with permission bit 10 through a table without an entry for it
\* yields Unmapped with bit 10 among the bits.
TranslateAceNeverTruncates ==
    op = "translate_ace" =>
        LET n == input.ace
        IN  /\ ResidueOf(table, n) # {} =>
                  /\ ret.status = "Unmapped"
                  /\ ret.bits = ResidueOf(table, n)
                  /\ "ace" \notin DOMAIN ret
            /\ ret.status = "Unmapped" => ret.bits # {}
            /\ (n.brand = RSYNC_ACL_BRAND_NFS4 /\ 10 \in n.perms
                  /\ \A i \in 1..Len(table) : table[i].impl # {10})
                 => ret.status = "Unmapped" /\ 10 \in ret.bits

TranslateAceWitness ==
    /\ op = "translate_ace"
    /\ table = Nfs4NoRcTable
    /\ input.ace.brand = RSYNC_ACL_BRAND_NFS4
    /\ input.ace.perms = {10}
    /\ input.ace.tagtype = {14}
    /\ ret.status = "Unmapped"
    /\ ret.bits = {10}

\* what translate_ace answers for entry i (from 1) of native ACL a
EntryResult(t, a, i) == translate_ace(t, AceFields(a, a.aces[i]))

\* C2: when translate_acl has returned, either every entry translates and
\* the result is an ACL of the same brand, type and length whose i-th entry
\* is translate_ace's of the i-th native entry, or the result is an error
\* with the index (from 0) of the first entry translate_ace fails on and
\* that entry's error, and no ACL.
TranslateAclAllOrNothing ==
    (op = "translate_acl" /\ pc = "idle") =>
        LET a == input.acl
            failing == {i \in 1..Len(a.aces) : EntryResult(table, a, i).status # "Ok"}
        IN  /\ acc = <<>>
            /\ IF failing = {}
               THEN /\ ret.status = "Ok"
                    /\ ret.acl.brand = a.brand /\ ret.acl.type = a.type
                    /\ Len(ret.acl.aces) = Len(a.aces)
                    /\ \A i \in 1..Len(a.aces) :
                          ret.acl.aces[i] = EntryResult(table, a, i).ace
               ELSE LET first == CHOOSE i \in failing : \A j \in failing : i <= j
                    IN  /\ ret.status = "Error"
                        /\ ret.index = first - 1
                        /\ ret.error = EntryResult(table, a, first)
                        /\ "acl" \notin DOMAIN ret

TranslateAclWitness ==
    /\ op = "translate_acl" /\ pc = "idle"
    /\ table = PosixTable
    /\ Len(input.acl.aces) = 2
    /\ input.acl.aces[1].perms = {0}
    /\ ret.status = "Error"
    /\ ret.index = 1
    /\ ret.error = [status |-> "Unmapped", bits |-> {10}]

\* a canonical ACE is legal for its brand: no reserved bit; under POSIX
\* permissions within bits 0-2, type Allow, no flag, tag not Everyone; under
\* NFS4 tag neither Other nor Mask
AceLegal(a) ==
    /\ a.value \cap (26..31) = {}
    /\ a.brand = RSYNC_ACL_BRAND_POSIX =>
          /\ a.value \cap (3..13) = {}
          /\ a.value \cap (17..18) = {}
          /\ a.value \cap (19..25) = {}
          /\ TagNumber(a.value) # TagEveryone
    /\ a.brand = RSYNC_ACL_BRAND_NFS4 =>
          TagNumber(a.value) \notin {TagOther, TagMask}
    /\ validate(a.value) = "Ok"
    /\ validate_for_brand(a.value, a.brand) = "Ok"

\* C10: every ACE translate_ace returns, and every entry of every ACL
\* translate_acl returns, passes validate and validate_for_brand for its
\* brand: no reserved bit, and only permissions, tag, type and flags legal
\* for the brand (POSIX: no flag, type Allow, permissions within bits 0-2).
TranslatedAceLegal ==
    /\ (op = "translate_ace" /\ ret.status = "Ok") =>
          /\ ret.ace.brand = input.ace.brand
          /\ AceLegal(ret.ace)
    /\ (op = "translate_acl" /\ pc = "idle" /\ ret.status = "Ok") =>
          \A i \in 1..Len(ret.acl.aces) :
              /\ ret.acl.aces[i].brand = input.acl.brand
              /\ AceLegal(ret.acl.aces[i])
    /\ op = "translate_acl" =>
          \A i \in 1..Len(acc) : AceLegal(acc[i])

TranslatedAceWitness ==
    /\ op = "translate_acl" /\ pc = "idle"
    /\ ret.status = "Ok"
    /\ input.acl.brand = RSYNC_ACL_BRAND_NFS4
    /\ Len(ret.acl.aces) = 2
    /\ ret.acl.aces[1].value = {0, 10}
    /\ ret.acl.aces[2].value = {10, 17, 20}
====
